---- MODULE Spec2Model ----
(***************************************************************************)
(* clocktail: the task store (TaskManager), its persisted document and the *)
(* rotation generator gen_next_task, modelled from src/clocktail/main.py.  *)
(*                                                                         *)
(* Python objects are modelled by a heap of Project objects indexed by an  *)
(* object id (pid); a Task object is the pair <<pid, index in tasks>>,     *)
(* because a Task is created inside TaskManager.add_task / load_tasks and  *)
(* is appended to exactly one Project.tasks list, which is never reordered *)
(* or shortened.  Optional values are sequences: None is <<>> and a value  *)
(* v is <<v>>.  Time is an integer number of days.                         *)
(***************************************************************************)
EXTENDS Integers, Sequences, FiniteSets, TLC

\* ----------------------------------------------------------------- bounds
MaxProjects == 2
MaxTasks == 3
MaxTicks == 1
\* tasks in the store in the specifications with load_tasks or with edits
MaxTasksSmall == 2
\* returns of one task counted while another task is waited for
MaxCount == 3

\* ------------------------------------------------------ program constants
PROJECT_MAX_DAYS == 15

\* ------------------------------------------------------------------ inputs
None == <<>>
Some(x) == <<x>>
Statuses == {"running", "waiting", "done"}
\* (name, description) pairs an operator may type
Texts == {<<"a", "">>, <<"b", "x">>}
\* the text add_project / add_task are given in the session specification
NewTexts == {<<"a", "">>}
\* snooze durations (days); a negative one gives a snooze_until in the past
Durations == {-1, PROJECT_MAX_DAYS + 1}
\* clock advances (days): just past the retention window
TickSteps == {PROJECT_MAX_DAYS + 1}
Pids == 1..(2 * MaxProjects)
\* the statuses and durations given in the specification with fairness
LiveStatuses == {"done", "running"}
LiveDurations == {-1}

VARIABLES
    heap,       \* pid -> Project object (live objects only)
    projects,   \* TaskManager.projects: sequence of pids
    file,       \* the file at backend_path
    gen,        \* the suspended frame of TaskManager.next_task_generator
    now,        \* datetime.now()
    result,     \* what the last get_next_task call returned
    ticks,      \* number of clock advances so far
    since,      \* since the last get_next_task call: "none", store operations
                \* ("mutated"), or store operations of which load_tasks is
                \* the last ("loaded")
    nrun,       \* len(running_projects) when the last get_next_task call
                \* returned
    watch,      \* observer: a task x being waited for, and how many times
                \* each other task was returned since the wait began
    io          \* the process and its open file: "idle", "writing" (inside
                \* save_tasks, todo still to write) or "down" (killed)

vars == <<heap, projects, file, gen, now, result, ticks, since, nrun, watch, io>>

\* ------------------------------------------------------------ domain model

\* Task(name, description, status, snooze_until) with its weak _project ref
Task(name, description, status, snooze_until, pid) ==
    [name |-> name, description |-> description, status |-> status,
     snooze_until |-> snooze_until, project |-> pid]

Project(name, creation_time, description) ==
    [name |-> name, creation_time |-> creation_time,
     description |-> description, tasks |-> <<>>]

\* Project.add_task: set the back-reference, append
Project_add_task(p, pid, task) ==
    [p EXCEPT !.tasks = Append(@, [task EXCEPT !.project = pid])]

\* is_done answering False for a project without tasks
is_done_nonempty(p) ==
    p.tasks # <<>> /\ \A i \in DOMAIN p.tasks : p.tasks[i].status = "done"

is_done(p) == \A i \in DOMAIN p.tasks : p.tasks[i].status = "done"

\* can_be_deleted without its is_done test
can_be_deleted_old_only(p, t) == (t - p.creation_time) > PROJECT_MAX_DAYS

can_be_deleted(p, t) ==
    is_done(p) /\ (t - p.creation_time) > PROJECT_MAX_DAYS

running_projects(h, ps) == SelectSeq(ps, LAMBDA pid : ~is_done(h[pid]))

\* ------------------------------------------------------- persistence codec

\* datetime.isoformat / datetime.fromisoformat: a timestamp and its text
isoformat(t) == <<"iso", t>>
fromisoformat(s) == s[2]

to_dict(p) ==
    [name |-> p.name,
     description |-> p.description,
     creation_time |-> isoformat(p.creation_time),
     tasks |-> [i \in DOMAIN p.tasks |->
        [name |-> p.tasks[i].name,
         description |-> p.tasks[i].description,
         status |-> p.tasks[i].status,
         snooze_until |-> IF p.tasks[i].snooze_until # None
                          THEN isoformat(p.tasks[i].snooze_until[1])
                          ELSE None]]]

projects_to_keep(h, ps, t) ==
    SelectSeq(ps, LAMBDA pid : ~can_be_deleted(h[pid], t))

json_dump(h, ps) == [i \in DOMAIN ps |-> to_dict(h[ps[i]])]

\* the file: exists; complete: its text is a whole JSON document; doc: the
\* project records its text holds
NoFile == [exists |-> FALSE, complete |-> TRUE, doc |-> <<>>]

\* the file right after open(self.backend_path, "w"): empty
Truncated == [exists |-> TRUE, complete |-> FALSE, doc |-> <<>>]

Idle == [st |-> "idle", todo |-> <<>>]
Down == [st |-> "down", todo |-> <<>>]
\* an operation has ended by raising exception e
Raised(e) == [st |-> "raised", todo |-> <<>>, exc |-> e]

\* TaskManager.save_tasks: the file after the with-block has closed
save_tasks(h, ps, t) ==
    [exists |-> TRUE, complete |-> TRUE,
     doc |-> json_dump(h, projects_to_keep(h, ps, t))]

\* ------------------------------------------------------------ object heap

TaskCount(h, ps) ==
    LET RECURSIVE sum(_)
        sum(i) == IF i > Len(ps) THEN 0 ELSE Len(h[ps[i]].tasks) + sum(i + 1)
    IN sum(1)

Range(s) == {s[i] : i \in DOMAIN s}

\* objects still referenced: by the store's list, or by the generator's frame
Reachable(ps, g) == Range(ps) \cup Range(g.rest)

Collect(h, ps, g) == [pid \in Reachable(ps, g) |-> h[pid]]

TaskAt(h, x) == h[x[1]].tasks[x[2]]

NewPid(used) == CHOOSE pid \in Pids \ used : \A q \in Pids \ used : pid <= q

\* ------------------------------------------------------ rotation scheduler

\* TaskManager.try_to_wake_up: the test, and the object after the wake
can_wake(task, t) == task.snooze_until # None /\ t >= task.snooze_until[1]

woken(task) == [task EXCEPT !.snooze_until = None, !.status = "running"]

\* the generator frame: where gen_next_task is suspended
\*   "start": not started; "none": at `yield None`; "task": at `yield task`
\*   rest: the unvisited part of the for-loop's list, current project first
\*   ti:   index in Head(rest).tasks of the task yielded last
Frame(pc, rest, ti) == [pc |-> pc, rest |-> rest, ti |-> ti]

Outcome(h, f, g, r) == [heap |-> h, file |-> f, gen |-> g, result |-> r]

\* the third test of the if: the comprehension calls try_to_wake_up on every
\* task of a running project whose status is not "running"
header_wakes(h, ps, t) ==
    LET rp == Range(running_projects(h, ps))
    IN [pid \in DOMAIN h |->
          IF pid \in rp
          THEN [h[pid] EXCEPT !.tasks = [i \in DOMAIN h[pid].tasks |->
                  IF h[pid].tasks[i].status # "running" /\ can_wake(h[pid].tasks[i], t)
                  THEN woken(h[pid].tasks[i])
                  ELSE h[pid].tasks[i]]]
          ELSE h[pid]]

header_list(h, ps, t) ==
    LET rp == running_projects(h, ps)
    IN {<<rp[k], i>> : k \in DOMAIN rp, i \in 1..MaxTasks + 1} \cap
       {x \in Pids \X (1..MaxTasks + 1) :
            /\ x[1] \in DOMAIN h
            /\ x[2] \in DOMAIN h[x[1]].tasks
            /\ \/ h[x[1]].tasks[x[2]].status = "running"
               \/ can_wake(h[x[1]].tasks[x[2]], t)}

RECURSIVE scan(_, _, _, _, _, _)
RECURSIVE header(_, _, _, _)

\* the body of `while True` from its top
header(h, f, ps, t) ==
    LET rp == running_projects(h, ps)
    IN IF \/ rp = <<>>
          \/ SelectSeq(rp, LAMBDA pid : h[pid].tasks # <<>>) = <<>>
       THEN Outcome(h, f, Frame("none", <<>>, 0), None)
       ELSE IF header_list(h, ps, t) = {}
       THEN Outcome(h, f, Frame("none", <<>>, 0), None)
       ELSE LET h2 == header_wakes(h, ps, t)
                f2 == IF h2 # h THEN save_tasks(h2, ps, t) ELSE f
            IN scan(h2, f2, ps, t, running_projects(h2, ps), 1)

\* the two for-loops, about to look at task ti of Head(rest)
scan(h, f, ps, t, rest, ti) ==
    IF rest = <<>> THEN header(h, f, ps, t)
    ELSE LET pid == Head(rest) IN
         IF ti > Len(h[pid].tasks) THEN scan(h, f, ps, t, Tail(rest), 1)
         ELSE LET task == h[pid].tasks[ti] IN
              IF task.status = "waiting" /\ can_wake(task, t)
              THEN LET h2 == [h EXCEPT ![pid].tasks[ti] = woken(task)]
                   IN Outcome(h2, save_tasks(h2, ps, t), Frame("task", rest, ti), <<pid, ti>>)
              ELSE IF task.status = "running"
              THEN Outcome(h, f, Frame("task", rest, ti), <<pid, ti>>)
              ELSE scan(h, f, ps, t, rest, ti + 1)

\* resuming at `yield task` without looking whether the list has a next task
gen_next_task_unchecked(h, f, ps, t, g) ==
    CASE g.pc = "start" -> header(h, f, ps, t)
      [] g.pc = "none"  -> scan(h, f, ps, t, running_projects(h, ps), 1)
      [] g.pc = "task"  ->
            Outcome(h, f, Frame("task", g.rest, g.ti + 1), <<Head(g.rest), g.ti + 1>>)

\* every call starting a new pass
gen_next_task_restart(h, f, ps, t, g) == header(h, f, ps, t)

\* next(self.next_task_generator): run the frame to its next yield
gen_next_task(h, f, ps, t, g) ==
    CASE g.pc = "start" -> header(h, f, ps, t)
      [] g.pc = "none"  -> scan(h, f, ps, t, running_projects(h, ps), 1)
      [] g.pc = "task"  -> scan(h, f, ps, t, g.rest, g.ti + 1)

\* ------------------------------------------------------------- operations

\* the observer of the calls: nothing waited for
NoWatch == [x |-> None, cnt |-> <<>>]

\* the observer after a call that returned r from heap h: the wait ends when
\* x is returned or had stopped running, another task returned is counted
observe(w, h, r) ==
    IF w.x = None THEN w
    ELSE IF r = w.x \/ TaskAt(h, w.x).status # "running" THEN NoWatch
    ELSE IF r = None THEN w
    ELSE [w EXCEPT !.cnt = IF r \in DOMAIN @
                           THEN [@ EXCEPT ![r] = IF @ < MaxCount THEN @ + 1 ELSE @]
                           ELSE (r :> 1) @@ @]

Init ==
    /\ heap = <<>>
    /\ projects = <<>>
    /\ file = NoFile
    /\ gen = Frame("start", <<>>, 0)
    /\ now = 0
    /\ result = None
    /\ ticks = 0
    /\ since = "none"
    /\ nrun = 0
    /\ watch = NoWatch
    /\ io = Idle

StoreTasks ==
    {x \in Range(projects) \X (1..MaxTasks) : x[2] <= Len(heap[x[1]].tasks)}

add_project(text) ==
    /\ Len(projects) < MaxProjects
    /\ LET pid == NewPid(DOMAIN heap)
       IN /\ heap' = (pid :> Project(text[1], now, text[2])) @@ heap
          /\ projects' = Append(projects, pid)
    /\ since' = "mutated"
    /\ UNCHANGED <<file, gen, now, result, ticks, io, nrun, watch>>

\* the objects after lines 178-179 of add_task
add_task_heap(pid, text) ==
    [heap EXCEPT ![pid] =
        Project_add_task(@, pid, Task(text[1], text[2], "running", None, pid))]

add_task(pid, text) ==
    /\ TaskCount(heap, projects) < MaxTasks
    /\ heap' = add_task_heap(pid, text)
    /\ file' = save_tasks(heap', projects, now)
    /\ since' = "mutated"
    /\ UNCHANGED <<projects, gen, now, result, ticks, io, nrun, watch>>

\* the objects after line 216 of mark_task
mark_task_heap(task, status) ==
    [heap EXCEPT ![task[1]].tasks[task[2]].status = status]

mark_task(task, status) ==
    /\ heap' = mark_task_heap(task, status)
    /\ file' = save_tasks(heap', projects, now)
    /\ since' = "mutated"
    /\ UNCHANGED <<projects, gen, now, result, ticks, io, nrun, watch>>

\* snooze_task setting the status only
snooze_task_heap_status_only(task, duration) ==
    [heap EXCEPT ![task[1]].tasks[task[2]].status = "waiting"]

\* the objects after lines 221-222 of snooze_task
snooze_task_heap(task, duration) ==
    [heap EXCEPT ![task[1]].tasks[task[2]].status = "waiting",
                 ![task[1]].tasks[task[2]].snooze_until = Some(now + duration)]

snooze_task(task, duration) ==
    /\ heap' = snooze_task_heap(task, duration)
    /\ file' = save_tasks(heap', projects, now)
    /\ since' = "mutated"
    /\ UNCHANGED <<projects, gen, now, result, ticks, io, nrun, watch>>

edit_task(task, text) ==
    /\ heap' = [heap EXCEPT ![task[1]].tasks[task[2]].name = text[1],
                            ![task[1]].tasks[task[2]].description = text[2]]
    /\ file' = save_tasks(heap', projects, now)
    /\ since' = "mutated"
    /\ UNCHANGED <<projects, gen, now, result, ticks, io, nrun, watch>>

edit_project(pid, text) ==
    /\ heap' = [heap EXCEPT ![pid].name = text[1], ![pid].description = text[2]]
    /\ file' = save_tasks(heap', projects, now)
    /\ since' = "mutated"
    /\ UNCHANGED <<projects, gen, now, result, ticks, io, nrun, watch>>

get_next_task ==
    /\ LET o == gen_next_task(heap, file, projects, now, gen)
       IN /\ heap' = Collect(o.heap, projects, o.gen)
          /\ file' = o.file
          /\ gen' = o.gen
          /\ result' = o.result
    /\ since' = "none"
    /\ nrun' = Len(running_projects(heap', projects))
    /\ watch' = observe(watch, heap, result')
    /\ UNCHANGED <<projects, now, ticks, io>>

\* load_task without the snooze_until of the record
load_task_no_snooze(d, pid) == Task(d.name, d.description, d.status, None, pid)

\* the Task object load_tasks builds from a task record
load_task(d, pid) ==
    Task(d.name, d.description, d.status,
         IF d.snooze_until # None THEN Some(fromisoformat(d.snooze_until)) ELSE None,
         pid)

\* the Project object load_tasks builds from a project record; d.get(key,
\* default) for creation_time and description
load_project(d, pid, t) ==
    [name |-> d.name,
     creation_time |-> fromisoformat(IF "creation_time" \in DOMAIN d
                                     THEN d.creation_time ELSE isoformat(t)),
     description |-> IF "description" \in DOMAIN d THEN d.description ELSE "",
     tasks |-> [i \in DOMAIN d.tasks |-> load_task(d.tasks[i], pid)]]

\* the objects load_tasks builds from the document, with fresh object ids
RECURSIVE loaded(_, _, _)
loaded(doc, used, t) ==
    IF doc = <<>> THEN [pids |-> <<>>, objs |-> <<>>]
    ELSE LET pid == NewPid(used)
             more == loaded(Tail(doc), used \cup {pid}, t)
         IN [pids |-> <<pid>> \o more.pids,
             objs |-> (pid :> load_project(Head(doc), pid, t)) @@ more.objs]

\* the keys load_tasks subscripts (d['name']): a record without one of them
\* raises KeyError; creation_time and description of a project are read with
\* d.get(key, default)
ProjectKeys == {"name", "tasks"}
TaskKeys == {"name", "description", "status", "snooze_until"}

\* the project record d is loaded without KeyError
loads(d) ==
    /\ ProjectKeys \subseteq DOMAIN d
    /\ \A i \in DOMAIN d.tasks : TaskKeys \subseteq DOMAIN d.tasks[i]

\* the records of the document that come before the first one that raises:
\* a project is appended to self.projects after its tasks were built
RECURSIVE loadable_prefix(_)
loadable_prefix(doc) ==
    IF doc = <<>> \/ ~loads(Head(doc)) THEN <<>>
    ELSE <<Head(doc)>> \o loadable_prefix(Tail(doc))

\* load_tasks replaces self.projects; the generator keeps the objects of its frame
load_tasks ==
    /\ file.complete
    /\ LET kept == Collect(heap, <<>>, gen)
           new == IF file.exists
                  THEN loaded(loadable_prefix(file.doc), DOMAIN kept, now)
                  ELSE [pids |-> <<>>, objs |-> <<>>]
       IN /\ projects' = new.pids
          /\ heap' = new.objs @@ kept
    /\ io' = IF file.exists /\ loadable_prefix(file.doc) # file.doc
             THEN Raised("KeyError") ELSE Idle
    /\ since' = "loaded"
    /\ UNCHANGED <<file, gen, now, result, ticks, nrun, watch>>

\* ---- the document edited by hand between two runs
ProjectFields == {"name", "description", "creation_time", "tasks"}
TaskFields == {"name", "description", "status", "snooze_until"}

\* record r without its field key
Without(r, key) == [k \in DOMAIN r \ {key} |-> r[k]]

\* every record of the document has every field
Whole(doc) ==
    \A k \in DOMAIN doc :
        /\ DOMAIN doc[k] = ProjectFields
        /\ \A i \in DOMAIN doc[k].tasks : DOMAIN doc[k].tasks[i] = TaskFields

\* a field is deleted from project record k of the file
drop_project_field(k, key) ==
    /\ file.exists /\ file.complete /\ Whole(file.doc)
    /\ k \in DOMAIN file.doc
    /\ file' = [file EXCEPT !.doc[k] = Without(@, key)]
    /\ UNCHANGED <<heap, projects, gen, now, result, ticks, since, io, nrun, watch>>

\* a field is deleted from task record i of project record k of the file
drop_task_field(k, i, key) ==
    /\ file.exists /\ file.complete /\ Whole(file.doc)
    /\ k \in DOMAIN file.doc
    /\ i \in DOMAIN file.doc[k].tasks
    /\ file' = [file EXCEPT !.doc[k].tasks[i] = Without(@, key)]
    /\ UNCHANGED <<heap, projects, gen, now, result, ticks, since, io, nrun, watch>>

\* the observer starts to wait for the running task x
Watch(x) ==
    /\ watch.x = None
    /\ TaskAt(heap, x).status = "running"
    /\ watch' = [x |-> x, cnt |-> <<>>]
    /\ UNCHANGED <<heap, projects, file, gen, now, result, ticks, since, nrun, io>>

Tick(d) ==
    /\ ticks < MaxTicks
    /\ now' = now + d
    /\ ticks' = ticks + 1
    /\ UNCHANGED <<heap, projects, file, gen, result, since, io, nrun, watch>>

\* ---- menu command 'w'
\* pick_task(project, filter waiting): the choice is a position in the
\* filtered list, the task returned is project.tasks[choice - 1]
pick_task(pid) ==
    LET tasks_to_pick == SelectSeq(heap[pid].tasks, LAMBDA t : t.status = "waiting")
    IN {<<pid, choice>> : choice \in 1..Len(tasks_to_pick)}

\* Task.wake_up: the two assignments, then self.project.save_tasks(), a
\* method Project does not have: AttributeError, which main does not catch
wake_up(task) ==
    /\ heap' = [heap EXCEPT ![task[1]].tasks[task[2]] = woken(@)]
    /\ io' = Raised("AttributeError")
    /\ since' = "mutated"
    /\ UNCHANGED <<projects, file, gen, now, result, ticks, nrun, watch>>

\* ---- save_tasks step by step, and the process killed
\* A mutator as far as the open() of its save_tasks call: the objects are
\* changed, the file is truncated, nothing is written yet.
begin_save(h2) ==
    /\ io.st = "idle"
    /\ heap' = h2
    /\ file' = Truncated
    /\ io' = [st |-> "writing",
              todo |-> json_dump(h2, projects_to_keep(h2, projects, now))]
    /\ since' = "mutated"
    /\ UNCHANGED <<projects, gen, now, result, ticks, nrun, watch>>

\* json.dump writes the next part of the document
write_chunk ==
    /\ io.st = "writing" /\ io.todo # <<>>
    /\ file' = [file EXCEPT !.doc = Append(@, Head(io.todo))]
    /\ io' = [io EXCEPT !.todo = Tail(@)]
    /\ UNCHANGED <<heap, projects, gen, now, result, ticks, since, nrun, watch>>

\* json.dump writes the end of the document, the with-block closes the file
\* and the mutator returns
close_file ==
    /\ io.st = "writing" /\ io.todo = <<>>
    /\ file' = [file EXCEPT !.complete = TRUE]
    /\ io' = Idle
    /\ UNCHANGED <<heap, projects, gen, now, result, ticks, since, nrun, watch>>

\* the process is killed: its objects are gone, the file stays as it is
interrupt ==
    /\ io.st # "down"
    /\ heap' = <<>>
    /\ projects' = <<>>
    /\ gen' = Frame("start", <<>>, 0)
    /\ result' = None
    /\ since' = "none"
    /\ nrun' = 0
    /\ io' = Down
    /\ UNCHANGED <<file, now, ticks, watch>>

\* the program is started again: TaskManager.__init__ calls load_tasks, and
\* json.load raises on a file that is not a whole document
restart ==
    /\ io.st = "down"
    /\ file.complete
    /\ LET new == IF file.exists THEN loaded(file.doc, {}, now)
                  ELSE [pids |-> <<>>, objs |-> <<>>]
       IN /\ projects' = new.pids
          /\ heap' = new.objs
    /\ io' = Idle
    /\ UNCHANGED <<file, gen, now, result, ticks, since, nrun, watch>>

\* -------------------------------------------------------- specifications

\* The interactive session (main): one TaskManager, whose load_tasks ran in
\* __init__ on an absent file; the operations that the scheduler reads.
\* edit_task and edit_project write name and description only, which the
\* scheduler never reads: they are in SpecStore.
Next ==
    \/ \E text \in NewTexts : add_project(text)
    \/ \E pid \in Range(projects), text \in NewTexts : add_task(pid, text)
    \/ \E task \in StoreTasks, status \in Statuses : mark_task(task, status)
    \/ \E task \in StoreTasks, duration \in Durations : snooze_task(task, duration)
    \/ get_next_task
    \/ \E d \in TickSteps : Tick(d)

Spec == Init /\ [][Next]_vars

Small == TaskCount(heap, projects) < MaxTasksSmall

\* The session with load_tasks called again on the live TaskManager, as the
\* tests do (test_main.py:52): the generator of __init__ stays in use.
NextReload ==
    \/ \E text \in NewTexts : add_project(text)
    \/ \E pid \in Range(projects), text \in NewTexts : Small /\ add_task(pid, text)
    \/ \E task \in StoreTasks, status \in Statuses : mark_task(task, status)
    \/ \E task \in StoreTasks, duration \in Durations : snooze_task(task, duration)
    \/ get_next_task
    \/ load_tasks

SpecReload == Init /\ [][NextReload]_vars

\* The store and its document: every mutating operation, the clock and
\* load_tasks, with the generator never advanced.
NextStore ==
    \/ \E text \in Texts : add_project(text)
    \/ \E pid \in Range(projects), text \in Texts : Small /\ add_task(pid, text)
    \/ \E task \in StoreTasks, status \in Statuses : mark_task(task, status)
    \/ \E task \in StoreTasks, duration \in Durations : snooze_task(task, duration)
    \/ \E task \in StoreTasks, text \in Texts : edit_task(task, text)
    \/ \E pid \in Range(projects), text \in Texts : edit_project(pid, text)
    \/ load_tasks
    \/ \E d \in TickSteps : Tick(d)

SpecStore == Init /\ [][NextStore]_vars

\* The store started on, or reloaded from, a document from which a field was
\* deleted by hand; an operation follows only a load that did not raise.
NextLoad ==
    \/ \E text \in Texts : io = Idle /\ add_project(text)
    \/ \E pid \in Range(projects), text \in Texts :
          io = Idle /\ Small /\ add_task(pid, text)
    \/ \E task \in StoreTasks, duration \in Durations :
          io = Idle /\ snooze_task(task, duration)
    \/ \E k \in 1..MaxProjects, key \in ProjectFields :
          io = Idle /\ drop_project_field(k, key)
    \/ \E k \in 1..MaxProjects, i \in 1..MaxTasksSmall, key \in TaskFields :
          io = Idle /\ drop_task_field(k, i, key)
    \/ load_tasks
    \/ \E d \in TickSteps : io = Idle /\ Tick(d)

SpecLoad == Init /\ [][NextLoad]_vars

\* The session whose get_next_task calls never stop (the operator keeps
\* asking for the next task), with a task waited for.
NextLive ==
    \/ \E text \in NewTexts : add_project(text)
    \/ \E pid \in Range(projects), text \in NewTexts : add_task(pid, text)
    \/ \E task \in StoreTasks, status \in LiveStatuses : mark_task(task, status)
    \/ \E task \in StoreTasks, duration \in LiveDurations : snooze_task(task, duration)
    \/ get_next_task
    \/ \E x \in StoreTasks : Watch(x)

SpecLive == Init /\ [][NextLive]_vars /\ WF_vars(get_next_task)

\* The session with the menu command 'w'; the process ends when an operation
\* raises.
NextWake ==
    \/ \E text \in NewTexts : io = Idle /\ add_project(text)
    \/ \E pid \in Range(projects), text \in NewTexts :
          io = Idle /\ add_task(pid, text)
    \/ \E task \in StoreTasks, status \in Statuses :
          io = Idle /\ mark_task(task, status)
    \/ \E task \in StoreTasks, duration \in Durations :
          io = Idle /\ snooze_task(task, duration)
    \/ io = Idle /\ get_next_task
    \/ \E pid \in Range(projects) : \E task \in pick_task(pid) :
          io = Idle /\ wake_up(task)

SpecWake == Init /\ [][NextWake]_vars

\* save_tasks at the grain of the file system: open (truncate), write,
\* close, with the process killed at any point and started again.
NextSave ==
    \/ \E text \in NewTexts : io.st = "idle" /\ add_project(text)
    \/ \E pid \in Range(projects), text \in NewTexts :
          Small /\ begin_save(add_task_heap(pid, text))
    \/ \E task \in StoreTasks, status \in Statuses :
          begin_save(mark_task_heap(task, status))
    \/ \E task \in StoreTasks, duration \in Durations :
          begin_save(snooze_task_heap(task, duration))
    \/ write_chunk
    \/ close_file
    \/ interrupt
    \/ restart

SpecSave == Init /\ [][NextSave]_vars

\* ------------------------------------------------------------------ claims

\* every task of the listed projects, in stored project order, then task order
RECURSIVE TaskSeq(_, _)
TaskSeq(h, ps) ==
    IF ps = <<>> THEN <<>>
    ELSE [i \in 1..Len(h[Head(ps)].tasks) |-> <<Head(ps), i>>] \o TaskSeq(h, Tail(ps))

RunningSeq(h, ps) ==
    SelectSeq(TaskSeq(h, ps), LAMBDA x : TaskAt(h, x).status = "running")

\* the element after x in s, the first one after the last
After(s, x) ==
    LET k == CHOOSE i \in DOMAIN s : s[i] = x
    IN s[(k % Len(s)) + 1]

Elapsed(task, t) == task.snooze_until # None /\ task.snooze_until[1] <= t
Future(task, t) == task.snooze_until # None /\ task.snooze_until[1] > t
AllDone(p) == \A i \in DOMAIN p.tasks : p.tasks[i].status = "done"

\* C1: with no store operation since the previous call, and a task returned
\* by it, get_next_task returns the running task that follows the previous
\* one in stored project order then task order, the first running task
\* after the last one.
C1_RoundRobin ==
    [][(get_next_task /\ since = "none" /\ result # None) =>
         LET rs == RunningSeq(heap', projects')
         IN /\ result \in Range(rs)
            /\ result' = After(rs, result)]_vars

\* C2: get_next_task never returns a task whose snooze_until is later than
\* now, and returns None when such a task is the only task that is not done.
C2_FutureSnoozeNotReturned ==
    [][get_next_task =>
         /\ result' # None => ~Future(TaskAt(heap', result'), now)
         /\ (\E x \in StoreTasks :
                /\ Future(TaskAt(heap, x), now)
                /\ \A y \in StoreTasks \ {x} : TaskAt(heap, y).status = "done")
            => result' = None]_vars

\* C5: every task has snooze_until set if and only if its status is waiting.
C5_SnoozeIffWaiting ==
    \A pid \in DOMAIN heap : \A i \in DOMAIN heap[pid].tasks :
        (heap[pid].tasks[i].snooze_until # None) <=> (heap[pid].tasks[i].status = "waiting")

\* C6: get_next_task never returns a task that was done when it was called,
\* and leaves every done task done.
C6_DoneStaysDone ==
    [][get_next_task =>
         \A x \in StoreTasks : TaskAt(heap, x).status = "done" =>
            /\ result' # x
            /\ TaskAt(heap', x).status = "done"]_vars

\* a task to act on at the time of a call: in a project that is not done,
\* running, or waiting with an elapsed snooze_until
Actionable(h, x, t) ==
    /\ ~AllDone(h[x[1]])
    /\ \/ TaskAt(h, x).status = "running"
       \/ TaskAt(h, x).status = "waiting" /\ Elapsed(TaskAt(h, x), t)

\* C7: get_next_task returns None exactly when the store holds no task to
\* act on at the time of the call.
C7_NoneIffNothingActionable ==
    [][get_next_task =>
         (result' = None <=> ~\E x \in StoreTasks : Actionable(heap, x, now))]_vars

\* the projects the claims expect in the document: not (done and older than
\* the retention window)
Retained(h, ps, t) ==
    SelectSeq(ps, LAMBDA pid :
        ~(AllDone(h[pid]) /\ t - h[pid].creation_time > PROJECT_MAX_DAYS))

\* the record the document holds for task x of the store, if it holds one
DocRecords(f, h, ps, t, x, status, snooze_until) ==
    \E k \in DOMAIN Retained(h, ps, t) :
        /\ Retained(h, ps, t)[k] = x[1]
        /\ f.exists /\ f.complete
        /\ k \in DOMAIN f.doc
        /\ x[2] \in DOMAIN f.doc[k].tasks
        /\ f.doc[k].tasks[x[2]].status = status
        /\ f.doc[k].tasks[x[2]].snooze_until = snooze_until

\* C3: a task that is waiting with an elapsed snooze_until when the call
\* that returns it starts is, when the call returns, running with no
\* snooze_until, and the document records it as running with a null
\* snooze_until.
C3_WokenAndPersisted ==
    [][(/\ get_next_task
        /\ result' # None
        /\ TaskAt(heap, result').status = "waiting"
        /\ Elapsed(TaskAt(heap, result'), now)) =>
         /\ TaskAt(heap', result').status = "running"
         /\ TaskAt(heap', result').snooze_until = None
         /\ DocRecords(file', heap', projects', now', result', "running", None)]_vars

Mutator ==
    \/ \E text \in Texts : add_project(text)
    \/ \E pid \in Range(projects), text \in Texts : add_task(pid, text)
    \/ \E task \in StoreTasks, status \in Statuses : mark_task(task, status)
    \/ \E task \in StoreTasks, duration \in Durations : snooze_task(task, duration)
    \/ \E task \in StoreTasks, text \in Texts : edit_task(task, text)
    \/ \E pid \in Range(projects), text \in Texts : edit_project(pid, text)

\* C4: when add_project, add_task, mark_task, snooze_task, edit_task or
\* edit_project returns, the document is the serialization of the projects
\* in memory that are not deletable.
C4_MutatorsPersist ==
    [][Mutator =>
         /\ file'.exists /\ file'.complete
         /\ file'.doc = json_dump(heap', Retained(heap', projects', now'))]_vars

\* an operation of the session that calls save_tasks: add_task, mark_task,
\* snooze_task, or a get_next_task call that wakes a task
SessionSave ==
    \/ \E pid \in Range(projects), text \in NewTexts : add_task(pid, text)
    \/ \E task \in StoreTasks, status \in Statuses : mark_task(task, status)
    \/ \E task \in StoreTasks, duration \in Durations : snooze_task(task, duration)
    \/ get_next_task /\ \E x \in StoreTasks : TaskAt(heap', x) # TaskAt(heap, x)

\* C8: after a save, the document holds, in stored order, exactly the
\* projects that are not both done and more than PROJECT_MAX_DAYS old.
C8_RetentionPruning ==
    [][SessionSave =>
         /\ file'.exists
         /\ Len(file'.doc) = Len(Retained(heap', projects', now'))
         /\ \A k \in DOMAIN file'.doc :
               file'.doc[k] = to_dict(heap'[Retained(heap', projects', now')[k]])]_vars

\* C8 witness: a save has left out a done project older than the window and
\* kept a done project younger than it.
C8_Witness ==
    \E p \in Range(projects), q \in Range(projects) :
        /\ AllDone(heap[p]) /\ now - heap[p].creation_time > PROJECT_MAX_DAYS
        /\ AllDone(heap[q]) /\ now - heap[q].creation_time <= PROJECT_MAX_DAYS
        /\ heap[p].tasks # <<>>
        /\ file.exists
        /\ file.doc = <<to_dict(heap[q])>>

\* the fields of the listed projects and of their tasks, without the
\* object ids
Values(h, ps) ==
    [i \in DOMAIN ps |->
        [name |-> h[ps[i]].name,
         description |-> h[ps[i]].description,
         creation_time |-> h[ps[i]].creation_time,
         tasks |-> [j \in DOMAIN h[ps[i]].tasks |->
            [name |-> h[ps[i]].tasks[j].name,
             description |-> h[ps[i]].tasks[j].description,
             status |-> h[ps[i]].tasks[j].status,
             snooze_until |-> h[ps[i]].tasks[j].snooze_until]]]]

BackRefs(h, ps) ==
    \A i \in DOMAIN ps : \A j \in DOMAIN h[ps[i]].tasks :
        h[ps[i]].tasks[j].project = ps[i]

\* the document is the one save_tasks writes for the collection in memory
DocumentOfMemory == file.exists /\ file = save_tasks(heap, projects, now)

\* C9: the file never holds an empty or partial document, also while
\* save_tasks runs and after the process was killed inside it.
C9_FileAlwaysComplete == file.exists => file.complete

\* C10 as stated: load_tasks on the document written for X rebuilds the
\* projects of X.
C10_RoundTripAll ==
    [][(load_tasks /\ DocumentOfMemory) =>
         /\ Values(heap', projects') = Values(heap, projects)
         /\ BackRefs(heap', projects')
         /\ save_tasks(heap', projects', now') = file]_vars

\* C10 amended: load_tasks on the document written for X rebuilds, in
\* order and field by field, the projects of X that save_tasks wrote (those
\* not deletable), each task referring to its project, and saving again at
\* the same time writes the same document.
C10_RoundTripKept ==
    [][(load_tasks /\ DocumentOfMemory) =>
         /\ Values(heap', projects') = Values(heap, Retained(heap, projects, now))
         /\ BackRefs(heap', projects')
         /\ save_tasks(heap', projects', now') = file]_vars

\* C10 witness: load_tasks has rebuilt the store from a document that holds
\* a done task, a snoozed task and an edited text.
C10_Witness ==
    /\ since = "loaded"
    /\ file.exists
    /\ json_dump(heap, projects) = file.doc
    /\ \E x \in StoreTasks : TaskAt(heap, x).snooze_until # None
    /\ \E x \in StoreTasks : TaskAt(heap, x).status = "done"
    /\ \E x \in StoreTasks : TaskAt(heap, x).description = "x"
    /\ BackRefs(heap, projects)

\* the tasks of p that are not done
NotDone(p) == {i \in DOMAIN p.tasks : p.tasks[i].status # "done"}

\* C11: is_done is true exactly for a project with no task or with every
\* task done, and add_task on a project that is done leaves it not done and
\* a member of running_projects.
C11_IsDone ==
    [][/\ \A pid \in DOMAIN heap' :
            is_done(heap'[pid]) <=>
                (Len(heap'[pid].tasks) = 0 \/ Cardinality(NotDone(heap'[pid])) = 0)
       /\ \A pid \in Range(projects), text \in Texts :
            (add_task(pid, text) /\ is_done(heap[pid])) =>
                /\ ~is_done(heap'[pid])
                /\ pid \in Range(running_projects(heap', projects'))]_vars

\* C11 witness: add_task has just put a running task behind the done tasks
\* of a project, which is in running_projects.
C11_Witness ==
    /\ since = "mutated"
    /\ \E pid \in Range(projects) :
          /\ Len(heap[pid].tasks) >= 2
          /\ \A i \in 1..(Len(heap[pid].tasks) - 1) : heap[pid].tasks[i].status = "done"
          /\ heap[pid].tasks[Len(heap[pid].tasks)].status = "running"
          /\ heap[pid].tasks[Len(heap[pid].tasks)].snooze_until = None
          /\ file.doc # <<>>
          /\ pid \in Range(running_projects(heap, projects))

LacksRequired(doc) ==
    \E k \in DOMAIN doc :
        \/ ~({"name", "tasks"} \subseteq DOMAIN doc[k])
        \/ \E i \in DOMAIN doc[k].tasks :
              ~({"name", "status"} \subseteq DOMAIN doc[k].tasks[i])

\* field key of record d, or the default when d has no such field
Get(d, key, default) == IF key \in DOMAIN d THEN d[key] ELSE default

\* C13: load_tasks raises exactly when a record lacks a required field;
\* otherwise it accepts the document and a missing description is "", a
\* missing creation_time is now and a missing snooze_until is none.
C13_LoadDefaults ==
    [][(load_tasks /\ file.exists) =>
         /\ (io'.st = "raised") <=> LacksRequired(file.doc)
         /\ ~LacksRequired(file.doc) =>
              /\ Len(projects') = Len(file.doc)
              /\ \A k \in DOMAIN file.doc :
                   LET d == file.doc[k]
                       p == heap'[projects'[k]]
                   IN /\ p.name = d.name
                      /\ p.description = Get(d, "description", "")
                      /\ p.creation_time =
                            fromisoformat(Get(d, "creation_time", isoformat(now)))
                      /\ Len(p.tasks) = Len(d.tasks)
                      /\ \A i \in DOMAIN d.tasks :
                           /\ p.tasks[i].name = d.tasks[i].name
                           /\ p.tasks[i].status = d.tasks[i].status
                           /\ p.tasks[i].description = Get(d.tasks[i], "description", "")
                           /\ p.tasks[i].snooze_until =
                                IF Get(d.tasks[i], "snooze_until", None) = None
                                THEN None
                                ELSE Some(fromisoformat(d.tasks[i].snooze_until))]_vars

\* the first element of s, None for the empty sequence
First(s) == IF s = <<>> THEN None ELSE Head(s)

\* C14: when the number of running projects is not what it was when the
\* previous call returned, get_next_task starts a new pass: it returns the
\* first running task of the first running project (None if there is none).
C14_RestartOnSizeChange ==
    [][(get_next_task /\ Len(running_projects(heap, projects)) # nrun) =>
         result' = First(RunningSeq(heap', running_projects(heap', projects')))]_vars

\* status or snooze_until of task x differs between the two heaps
Touched(h, h2, x) ==
    \/ TaskAt(h2, x).status # TaskAt(h, x).status
    \/ TaskAt(h2, x).snooze_until # TaskAt(h, x).snooze_until

\* C15: a get_next_task call changes status and snooze_until of no task
\* other than the one it returns, and of none when it returns None or a
\* task that was running when it was called.
C15_WakesOnlyReturned ==
    [][get_next_task =>
         \A x \in StoreTasks :
            Touched(heap, heap', x) =>
               /\ result' = x
               /\ TaskAt(heap, x).status # "running"]_vars

\* the result of a call in the current state is None or a task of a live
\* project object, and the generator is left suspended at a yield
OneResult(o) ==
    /\ \/ o.result = None
       \/ /\ o.result[1] \in DOMAIN o.heap
          /\ o.result[2] \in DOMAIN o.heap[o.result[1]].tasks
    /\ o.gen.pc \in {"none", "task"}
    /\ o.gen.pc = "none" <=> o.result = None

\* C16: in every reachable state a get_next_task call returns, with one
\* result: None or a task.
C16_CallReturnsOneResult ==
    OneResult(gen_next_task(heap, file, projects, now, gen))

\* C16 witness: a pass is in progress, store operations followed the last
\* call, and the project the cursor is in is done (no longer in
\* running_projects) while another project has a task added since.
C16_Witness ==
    /\ since = "mutated"
    /\ gen.pc = "task"
    /\ is_done(heap[Head(gen.rest)])
    /\ Head(gen.rest) \in Range(projects)
    /\ \E pid \in Range(running_projects(heap, projects)) : pid \notin Range(gen.rest)
    /\ gen_next_task(heap, file, projects, now, gen).result # None

\* C17: a task get_next_task returns belongs to a project of the store's
\* current list, and the call changes no object outside that list.
C17_ReturnsStoreTasks ==
    [][get_next_task =>
         /\ result' # None => result'[1] \in Range(projects')
         /\ \A pid \in DOMAIN heap \ Range(projects) :
               pid \in DOMAIN heap' => heap'[pid] = heap[pid]]_vars

\* C18: wake_up on a waiting task returns without an exception and leaves
\* the task running with no snooze_until in memory and in the document.
C18_ManualWake ==
    [][\A task \in StoreTasks :
         (wake_up(task) /\ TaskAt(heap, task).status = "waiting") =>
            /\ io'.st = "idle"
            /\ TaskAt(heap', task).status = "running"
            /\ TaskAt(heap', task).snooze_until = None
            /\ DocRecords(file', heap', projects', now', task, "running", None)]_vars

\* a running task is being waited for
Watched == watch.x # None /\ TaskAt(heap, watch.x).status = "running"

\* C19: while a task that is running is waited for, no other task is
\* returned more than twice, and the wait ends: the task is returned (or
\* stops being running).
C19_NoStarvation ==
    /\ [](Watched => \A y \in DOMAIN watch.cnt : watch.cnt[y] <= 2)
    /\ (Watched ~> ~Watched)

\* C19 witness: a task is waited for, the calls since have returned another
\* task twice (at the end of one pass and in the next), and the next call
\* returns the task.
C19_Witness ==
    /\ Watched
    /\ since = "none"
    /\ \E y \in DOMAIN watch.cnt : watch.cnt[y] = 2
    /\ gen.pc = "task"
    /\ gen_next_task(heap, file, projects, now, gen).result = watch.x

====
